---- MODULE Spec2Model ----
(***************************************************************************)
(* Model of training/loss.py: the nine GAN loss functions.                 *)
(*                                                                         *)
(* A loss function is called once, with its hyperparameters, to build the  *)
(* loss and regularizer tensors; the tensors are then evaluated over and   *)
(* over, each evaluation with fresh random samples and with whatever the   *)
(* networks G and D compute at that moment.  Init is the state after the   *)
(* call (the function, minibatch_size and the hyperparameters are fixed),  *)
(* and there is one action per function: one evaluation of its tensors.    *)
(*                                                                         *)
(* Numbers.  Tensor entries are exact integers in fixed-point units:       *)
(*   - scores and gradients (network outputs) are whole numbers;           *)
(*   - losses and the D regularizers are in units of 1/Scale;              *)
(*   - path lengths and pl_mean are in units of 1/PlUnit, the path length  *)
(*     regularizer in units of 1/PlUnit^2, so that the batch mean and the  *)
(*     moving average are computed without rounding.                       *)
(* Floating-point rounding, overflow and NaN are not modelled.             *)
(***************************************************************************)
EXTENDS Integers, Sequences, FiniteSets, TLC

\* ------------------------------------------------------------------ bounds

\* Largest minibatch_size G_logistic, G_logistic_ns and G_wgan are built with.
MaxBatchG == 4

\* Largest minibatch_size G_logistic_ns_pathreg is built with.
MaxBatchPl == 2

\* Largest minibatch_size a discriminator loss is built with.
MaxBatchD == 2

\* Largest number of evaluations of the path length regularizer.
MaxPlEvals == 2

\* ------------------------------------------------------------ number model

\* Fixed-point unit of the float32 loss values: 1.0 is Scale.
Scale == 1000

\* The literal 0.5 of gamma * 0.5.
Half == Scale \div 2

\* pl_decay is a multiple of 1 / DecayDen.
DecayDen == 2

RECURSIVE Pow2(_)
Pow2(n) == IF n = 0 THEN 1 ELSE 2 * Pow2(n - 1)

RECURSIVE Fact(_)
Fact(n) == IF n = 0 THEN 1 ELSE n * Fact(n - 1)

\* Unit of the path lengths: every batch mean (a division by at most
\* MaxBatchPl) and every moving-average step (a division by DecayDen, at most
\* MaxPlEvals times) is exact.
PlUnit == Pow2(MaxPlEvals) * Fact(MaxBatchPl)

Max(a, b) == IF a >= b THEN a ELSE b

\* ---------------------------------------------------------------- tensors

\* A tensor: its shape and its entries in row-major order.  An unevaluated
\* tensor (one the run did not fetch) has its shape and no entries.
Tensor(shape, data) == [none |-> FALSE, shape |-> shape, data |-> data]

\* Python's None, the regularizer of a loss that has none.
None == [none |-> TRUE, shape |-> << >>, data |-> << >>]

RECURSIVE reduce_sum(_)
reduce_sum(s) == IF s = << >> THEN 0 ELSE Head(s) + reduce_sum(Tail(s))

\* tf.reduce_mean over one axis.
reduce_mean(s) == reduce_sum(s) \div Len(s)

square(x) == x * x

\* tf.reduce_sum(tf.square(v)) over all the axes of one sample.
SumSquares(v) == reduce_sum([i \in 1..Len(v) |-> square(v[i])])

\* tf.sqrt on the values that occur here (perfect squares); the floor
\* otherwise.
sqrt(n) == CHOOSE r \in 0..n : r * r <= n /\ (r + 1) * (r + 1) > n

\* tf.nn.softplus(x) = log(1 + exp(x)), rounded to 1/Scale.
softplus(x) ==
    CASE x = -2 -> 127
      [] x = -1 -> 313
      [] x =  0 -> 693
      [] x =  1 -> 1313
      [] x =  2 -> 2127

RECURSIVE bottom_k(_, _)
\* The k smallest entries, smallest first (the variant C9 excludes).
bottom_k(s, k) ==
    IF k = 0 THEN << >>
    ELSE LET i == CHOOSE i \in 1..Len(s) : \A j \in 1..Len(s) : s[j] >= s[i]
             rest == [j \in 1..(Len(s) - 1) |-> IF j < i THEN s[j] ELSE s[j + 1]]
         IN  <<s[i]>> \o bottom_k(rest, k - 1)

RECURSIVE top_k(_, _)
\* tf.math.top_k(s, k): the k largest entries, largest first.
top_k(s, k) ==
    IF k = 0 THEN << >>
    ELSE LET i == CHOOSE i \in 1..Len(s) : \A j \in 1..Len(s) : s[j] <= s[i]
             rest == [j \in 1..(Len(s) - 1) |-> IF j < i THEN s[j] ELSE s[j + 1]]
         IN  <<s[i]>> \o top_k(rest, k - 1)

\* ------------------------------------------------------- inputs of a run

\* Scores D gives an image.
ScoreVals == {-2, 0, 1}

\* Images (reals from the training set, fakes from G), by identity.
Images == {"img_a", "img_b"}

\* Gradients of a D score with respect to the two pixels of an image.
GradVecs == { <<0, 0>>, <<0, -1>>, <<3, -4>> }

\* Gradients of sum(fake_images * pl_noise) with respect to the dlatents of
\* one sample: two layers of two components.
PlGrads == { << <<0, 0>>, <<0, 0>> >>,
             << <<1, -1>>, <<0, 0>> >>,
             << <<3, -4>>, <<-5, 0>> >> }

\* The network and optimizer handles of the call, and other ones the same
\* call could have been made with instead.
Gs == "Gs"
opt == "opt"
other_Gs == "other_Gs"
other_opt == "other_opt"

\* The inputs no function draws.
NoDraw ==
    [fake_scores |-> << >>, real_scores |-> << >>, real_grads |-> << >>,
     fake_grads |-> << >>, mixed_grads |-> << >>, pl_grads |-> << >>]

\* The hyperparameter defaults, in the units of Hyperparameters (pl_decay,
\* 0.01 in the source, is given a value by every call that reads it).
DefaultHp ==
    [gamma |-> 10, wgan_lambda |-> 10, wgan_epsilon |-> 1, wgan_target |-> 1,
     pl_minibatch_shrink |-> 2, pl_decay |-> 0, pl_weight |-> 2]

GFunctions == {"G_logistic", "G_logistic_ns", "G_wgan", "G_logistic_ns_pathreg"}
DFunctions == {"D_logistic", "D_logistic_r1", "D_logistic_r2", "D_wgan", "D_wgan_gp"}
Functions == GFunctions \cup DFunctions

\* Hyperparameters each function may be called with: gamma, wgan_lambda and
\* wgan_target in whole numbers, wgan_epsilon in 1/Scale (the default 0.001
\* is 1), pl_decay in 1/DecayDen.
Hyperparameters(f) ==
    CASE f \in {"D_logistic_r1", "D_logistic_r2"} ->
           {[DefaultHp EXCEPT !.gamma = g] : g \in {-2, 0, 10}}
      [] f = "D_wgan" ->
           {[DefaultHp EXCEPT !.wgan_epsilon = e] : e \in {0, 1}}
      [] f = "D_wgan_gp" ->
           {[DefaultHp EXCEPT !.wgan_lambda = l, !.wgan_target = t] :
               l \in {-4, 0, 10}, t \in {1, 2}}
      [] f = "G_logistic_ns_pathreg" ->
           {[DefaultHp EXCEPT !.pl_minibatch_shrink = s, !.pl_decay = d, !.pl_weight = w] :
               s \in {1, 2}, d \in {0, 1, 2}, w \in {1, 2}}
      [] OTHER -> {DefaultHp}

BatchSizes(f) ==
    CASE f = "G_logistic_ns_pathreg" -> 1..MaxBatchPl
      [] f \in GFunctions \ {"G_logistic_ns_pathreg"} -> 1..MaxBatchG
      [] OTHER -> 1..MaxBatchD

\* ------------------------------------------------------------------ state

VARIABLES
    fn,              \* the loss function that built the tensors
    minibatch_size,  \* its minibatch_size argument
    hp,              \* its hyperparameters
    pc,              \* "idle", or "done": a run's results are held
    draw,            \* the random samples and network outputs of the run
    fetched,         \* the tensors the run evaluated
    out,             \* the returned pair (loss, reg), as evaluated by the run
    alt,             \* the same run, had the call been given other_Gs, other_opt
    calls,           \* how often the call uses each of G, D, Gs and opt
    pl_mean_var,     \* the tf.Variable 'pl_mean'
    pl_old,          \* history: pl_mean_var before the run's write
    pl_batch_mean,   \* history: mean(pl_lengths) of the run
    pl_max,          \* history: largest mean(pl_lengths) so far
    pl_evals,        \* history: evaluations of the regularizer
    pl_writes        \* history: writes to pl_mean_var

config == <<fn, minibatch_size, hp>>
run == <<pc, draw, fetched, out, alt, calls>>
pl == <<pl_mean_var, pl_old, pl_batch_mean, pl_max, pl_evals, pl_writes>>
vars == <<config, run, pl>>

NoOut == [loss |-> None, reg |-> None]
NoCalls == [G |-> 0, D |-> 0, Gs |-> 0, opt |-> 0]

Init ==
    /\ fn \in Functions
    /\ minibatch_size \in BatchSizes(fn)
    /\ hp \in Hyperparameters(fn)
    /\ pc = "idle"
    /\ draw = NoDraw
    /\ fetched = {}
    /\ out = NoOut
    /\ alt = NoOut
    /\ calls = NoCalls
    /\ pl_mean_var = 0
    /\ pl_old = 0
    /\ pl_batch_mean = 0
    /\ pl_max = 0
    /\ pl_evals = 0
    /\ pl_writes = 0

\* ------------------------------------------------------- generator losses

\* G_logistic: loss = -softplus(fake_scores_out), no regularizer.
G_logistic_out(Gs_, opt_, mb, d) ==
    [loss |-> Tensor(<<mb, 1>>, [i \in 1..mb |-> -softplus(d.fake_scores[i])]),
     reg |-> None]

G_logistic ==
    /\ pc = "idle" /\ fn = "G_logistic"
    /\ \E fake_scores \in [1..minibatch_size -> ScoreVals] :
          LET d == [NoDraw EXCEPT !.fake_scores = fake_scores]
          IN  /\ draw' = d
              /\ out' = G_logistic_out(Gs, opt, minibatch_size, d)
              /\ alt' = G_logistic_out(other_Gs, other_opt, minibatch_size, d)
    /\ fetched' = {"loss"}
    /\ calls' = [G |-> 1, D |-> 1, Gs |-> 0, opt |-> 0]
    /\ pc' = "done"
    /\ UNCHANGED <<config, pl>>

\* G_logistic_ns: the non-saturating loss, of the minibatch_size // 2
\* highest fake scores only, no regularizer.
G_logistic_ns_out(Gs_, opt_, mb, d) ==
    LET flat == d.fake_scores
        top == top_k(flat, mb \div 2)
    IN  [loss |-> Tensor(<<Len(top), 1>>, [i \in 1..Len(top) |-> softplus(-top[i])]),
         reg |-> None]

G_logistic_ns ==
    /\ pc = "idle" /\ fn = "G_logistic_ns"
    /\ \E fake_scores \in [1..minibatch_size -> ScoreVals] :
          LET d == [NoDraw EXCEPT !.fake_scores = fake_scores]
          IN  /\ draw' = d
              /\ out' = G_logistic_ns_out(Gs, opt, minibatch_size, d)
              /\ alt' = G_logistic_ns_out(other_Gs, other_opt, minibatch_size, d)
    /\ fetched' = {"loss"}
    /\ calls' = [G |-> 1, D |-> 1, Gs |-> 0, opt |-> 0]
    /\ pc' = "done"
    /\ UNCHANGED <<config, pl>>

\* G_wgan returning its loss as regularizer too (the variant C1 excludes).
G_wgan_out_with_reg(Gs_, opt_, mb, d) ==
    LET loss == Tensor(<<mb, 1>>, [i \in 1..mb |-> -(Scale * d.fake_scores[i])])
    IN  [loss |-> loss, reg |-> loss]

\* G_wgan: loss = -fake_scores_out, no regularizer.
G_wgan_out(Gs_, opt_, mb, d) ==
    [loss |-> Tensor(<<mb, 1>>, [i \in 1..mb |-> -(Scale * d.fake_scores[i])]),
     reg |-> None]

G_wgan ==
    /\ pc = "idle" /\ fn = "G_wgan"
    /\ \E fake_scores \in [1..minibatch_size -> ScoreVals] :
          LET d == [NoDraw EXCEPT !.fake_scores = fake_scores]
          IN  /\ draw' = d
              /\ out' = G_wgan_out(Gs, opt, minibatch_size, d)
              /\ alt' = G_wgan_out(other_Gs, other_opt, minibatch_size, d)
    /\ fetched' = {"loss"}
    /\ calls' = [G |-> 1, D |-> 1, Gs |-> 0, opt |-> 0]
    /\ pc' = "done"
    /\ UNCHANGED <<config, pl>>

\* --------------------------------------------------- discriminator losses

\* What D gives for a minibatch of reals and of fakes: its scores, and the
\* gradient of each score with respect to its image.
DOutputs(mb, reals, fake_images, D_score, D_grad) ==
    [NoDraw EXCEPT !.real_scores = [i \in 1..mb |-> D_score[reals[i]]],
                   !.fake_scores = [i \in 1..mb |-> D_score[fake_images[i]]],
                   !.real_grads = [i \in 1..mb |-> D_grad[reals[i]]],
                   !.fake_grads = [i \in 1..mb |-> D_grad[fake_images[i]]]]

\* The same, of a discriminator loss that takes no gradient.
DScores(mb, reals, fake_images, D_score) ==
    [NoDraw EXCEPT !.real_scores = [i \in 1..mb |-> D_score[reals[i]]],
                   !.fake_scores = [i \in 1..mb |-> D_score[fake_images[i]]]]

\* The output of Gs.get_output_for, which every discriminator loss computes
\* and no result uses.
Gs_get_output_for(Gs_, mb) == [i \in 1..mb |-> Gs_]

\* D_logistic scoring the images of Gs instead of discarding them (the
\* variant C6 excludes).
D_logistic_out_of_Gs(Gs_, opt_, mb, d) ==
    LET fake_images_Gs == Gs_get_output_for(Gs_, mb)
    IN  [loss |-> Tensor(<<mb, 1>>,
                    [i \in 1..mb |-> softplus(IF fake_images_Gs[i] = Gs THEN d.fake_scores[i] ELSE 0)
                                       + softplus(-d.real_scores[i])]),
         reg |-> None]

\* D_logistic: loss = softplus(fake) + softplus(-real), no regularizer.
D_logistic_out(Gs_, opt_, mb, d) ==
    LET fake_images_Gs == Gs_get_output_for(Gs_, mb)
    IN  [loss |-> Tensor(<<mb, 1>>,
                    [i \in 1..mb |-> softplus(d.fake_scores[i]) + softplus(-d.real_scores[i])]),
         reg |-> None]

D_logistic ==
    /\ pc = "idle" /\ fn = "D_logistic"
    /\ \E reals \in [1..minibatch_size -> Images], fake_images \in [1..minibatch_size -> Images],
          D_score \in [Images -> ScoreVals] :
          LET d == DScores(minibatch_size, reals, fake_images, D_score)
          IN  /\ draw' = d
              /\ out' = D_logistic_out(Gs, opt, minibatch_size, d)
              /\ alt' = D_logistic_out(other_Gs, other_opt, minibatch_size, d)
    /\ fetched' = {"loss"}
    /\ calls' = [G |-> 1, D |-> 2, Gs |-> 1, opt |-> 0]
    /\ pc' = "done"
    /\ UNCHANGED <<config, pl>>

\* The sum of the gradients, not of their squares (the variant C2 excludes).
D_logistic_r1_gradient_penalty_unsquared(mb, d) ==
    [i \in 1..mb |-> reduce_sum(d.real_grads[i])]

\* The penalty on the fakes, which is R2's (the variant C7 excludes).
D_logistic_r1_gradient_penalty_on_fakes(mb, d) ==
    [i \in 1..mb |-> SumSquares(d.fake_grads[i])]

\* gradient_penalty of D_logistic_r1: of each real score, with respect to
\* its real image.
D_logistic_r1_gradient_penalty(mb, d) ==
    LET real_grads == d.real_grads
    IN  [i \in 1..mb |-> SumSquares(real_grads[i])]

\* D_logistic_r1: the loss of D_logistic, and the R1 regularizer.
D_logistic_r1_out(Gs_, opt_, mb, gamma, d) ==
    LET gradient_penalty == D_logistic_r1_gradient_penalty(mb, d)
        fake_images_Gs == Gs_get_output_for(Gs_, mb)
    IN  [loss |-> Tensor(<<mb, 1>>,
                    [i \in 1..mb |-> softplus(d.fake_scores[i]) + softplus(-d.real_scores[i])]),
         reg |-> Tensor(<<mb>>, [i \in 1..mb |-> gradient_penalty[i] * (gamma * Half)])]

D_logistic_r1 ==
    /\ pc = "idle" /\ fn = "D_logistic_r1"
    /\ \E reals \in [1..minibatch_size -> Images], fake_images \in [1..minibatch_size -> Images],
          D_score \in [Images -> ScoreVals], D_grad \in [Images -> GradVecs] :
          LET d == DOutputs(minibatch_size, reals, fake_images, D_score, D_grad)
          IN  /\ draw' = d
              /\ out' = D_logistic_r1_out(Gs, opt, minibatch_size, hp.gamma, d)
              /\ alt' = D_logistic_r1_out(other_Gs, other_opt, minibatch_size, hp.gamma, d)
    /\ fetched' = {"loss", "reg"}
    /\ calls' = [G |-> 1, D |-> 2, Gs |-> 1, opt |-> 0]
    /\ pc' = "done"
    /\ UNCHANGED <<config, pl>>

\* gradient_penalty of D_logistic_r2: of each fake score, with respect to
\* its generated image.
D_logistic_r2_gradient_penalty(mb, d) ==
    LET fake_grads == d.fake_grads
    IN  [i \in 1..mb |-> SumSquares(fake_grads[i])]

\* D_logistic_r2: the loss of D_logistic, and the R2 regularizer.
D_logistic_r2_out(Gs_, opt_, mb, gamma, d) ==
    LET gradient_penalty == D_logistic_r2_gradient_penalty(mb, d)
        fake_images_Gs == Gs_get_output_for(Gs_, mb)
    IN  [loss |-> Tensor(<<mb, 1>>,
                    [i \in 1..mb |-> softplus(d.fake_scores[i]) + softplus(-d.real_scores[i])]),
         reg |-> Tensor(<<mb>>, [i \in 1..mb |-> gradient_penalty[i] * (gamma * Half)])]

D_logistic_r2 ==
    /\ pc = "idle" /\ fn = "D_logistic_r2"
    /\ \E reals \in [1..minibatch_size -> Images], fake_images \in [1..minibatch_size -> Images],
          D_score \in [Images -> ScoreVals], D_grad \in [Images -> GradVecs] :
          LET d == DOutputs(minibatch_size, reals, fake_images, D_score, D_grad)
          IN  /\ draw' = d
              /\ out' = D_logistic_r2_out(Gs, opt, minibatch_size, hp.gamma, d)
              /\ alt' = D_logistic_r2_out(other_Gs, other_opt, minibatch_size, hp.gamma, d)
    /\ fetched' = {"loss", "reg"}
    /\ calls' = [G |-> 1, D |-> 2, Gs |-> 1, opt |-> 0]
    /\ pc' = "done"
    /\ UNCHANGED <<config, pl>>

\* The WGAN loss with its epsilon penalty: fake - real + real^2 * epsilon.
wgan_loss(mb, wgan_epsilon, d) ==
    [i \in 1..mb |-> Scale * d.fake_scores[i] + (-(Scale * d.real_scores[i]))
                       + square(d.real_scores[i]) * wgan_epsilon]

\* D_wgan: the WGAN loss, no regularizer.
D_wgan_out(Gs_, opt_, mb, wgan_epsilon, d) ==
    LET fake_images_Gs == Gs_get_output_for(Gs_, mb)
    IN  [loss |-> Tensor(<<mb, 1>>, wgan_loss(mb, wgan_epsilon, d)),
         reg |-> None]

D_wgan ==
    /\ pc = "idle" /\ fn = "D_wgan"
    /\ \E reals \in [1..minibatch_size -> Images], fake_images \in [1..minibatch_size -> Images],
          D_score \in [Images -> ScoreVals] :
          LET d == DScores(minibatch_size, reals, fake_images, D_score)
          IN  /\ draw' = d
              /\ out' = D_wgan_out(Gs, opt, minibatch_size, hp.wgan_epsilon, d)
              /\ alt' = D_wgan_out(other_Gs, other_opt, minibatch_size, hp.wgan_epsilon, d)
    /\ fetched' = {"loss"}
    /\ calls' = [G |-> 1, D |-> 2, Gs |-> 1, opt |-> 0]
    /\ pc' = "done"
    /\ UNCHANGED <<config, pl>>

\* gradient_penalty of D_wgan_gp: the squared distance of the gradient norm
\* at each mixed image from wgan_target.
D_wgan_gp_gradient_penalty(mb, wgan_target, d) ==
    LET mixed_grads == d.mixed_grads
        mixed_norms == [i \in 1..mb |-> sqrt(SumSquares(mixed_grads[i]))]
    IN  [i \in 1..mb |-> square(mixed_norms[i] - wgan_target)]

\* D_wgan_gp: the WGAN loss, and the gradient penalty as regularizer.
D_wgan_gp_out(Gs_, opt_, mb, h, d) ==
    LET gradient_penalty == D_wgan_gp_gradient_penalty(mb, h.wgan_target, d)
        fake_images_Gs == Gs_get_output_for(Gs_, mb)
    IN  [loss |-> Tensor(<<mb, 1>>, wgan_loss(mb, h.wgan_epsilon, d)),
         reg |-> Tensor(<<mb>>,
                   [i \in 1..mb |-> gradient_penalty[i]
                                      * ((h.wgan_lambda * Scale) \div square(h.wgan_target))])]

D_wgan_gp ==
    /\ pc = "idle" /\ fn = "D_wgan_gp"
    /\ \E reals \in [1..minibatch_size -> Images], fake_images \in [1..minibatch_size -> Images],
          D_score \in [Images -> ScoreVals], mixed_grads \in [1..minibatch_size -> GradVecs] :
          LET d == [DScores(minibatch_size, reals, fake_images, D_score)
                      EXCEPT !.mixed_grads = mixed_grads]
          IN  /\ draw' = d
              /\ out' = D_wgan_gp_out(Gs, opt, minibatch_size, hp, d)
              /\ alt' = D_wgan_gp_out(other_Gs, other_opt, minibatch_size, hp, d)
    /\ fetched' = {"loss", "reg"}
    /\ calls' = [G |-> 1, D |-> 3, Gs |-> 1, opt |-> 0]
    /\ pc' = "done"
    /\ UNCHANGED <<config, pl>>

\* ------------------------------------------- path length regularization

\* No shrinking at all (the variant C3 excludes).
pl_minibatch_unshrunk(mb, pl_minibatch_shrink) == mb

\* The minibatch the path lengths are taken on.
pl_minibatch(mb, pl_minibatch_shrink) ==
    IF pl_minibatch_shrink > 1 THEN Max(1, mb \div pl_minibatch_shrink) ELSE mb

\* pl_lengths = sqrt(mean over the layers of the summed squares of pl_grads).
pl_lengths(d) ==
    [i \in 1..Len(d.pl_grads) |->
        PlUnit * sqrt(reduce_mean([l \in 1..Len(d.pl_grads[i]) |-> SumSquares(d.pl_grads[i][l])]))]

\* The step taken away from the batch mean (the variant C10 excludes).
pl_mean_away(old, pl_decay, lengths) ==
    old - (pl_decay * (reduce_mean(lengths) - old)) \div DecayDen

\* pl_mean = pl_mean_var + pl_decay * (mean(pl_lengths) - pl_mean_var).
pl_mean(old, pl_decay, lengths) ==
    old + (pl_decay * (reduce_mean(lengths) - old)) \div DecayDen

\* pl_penalty = (pl_lengths - pl_mean)^2, taken after the pl_update.
pl_penalty(lengths, mean) == [i \in 1..Len(lengths) |-> square(lengths[i] - mean)]

\* The saturating sign, softplus(x) (the variant C5 excludes).
G_logistic_ns_pathreg_loss_saturating(Gs_, opt_, mb, d) ==
    Tensor(<<mb, 1>>, [i \in 1..Len(d.fake_scores) |-> softplus(d.fake_scores[i])])

\* The loss tensor of G_logistic_ns_pathreg.
G_logistic_ns_pathreg_loss(Gs_, opt_, mb, d) ==
    Tensor(<<mb, 1>>, [i \in 1..Len(d.fake_scores) |-> softplus(-d.fake_scores[i])])

\* The penalty against the moving average as it was before the write (the
\* variant C8 excludes).
G_logistic_ns_pathreg_reg_before_update(Gs_, opt_, mb, h, old, d) ==
    LET lengths == pl_lengths(d)
        penalty == pl_penalty(lengths, old)
    IN  Tensor(<<pl_minibatch(mb, h.pl_minibatch_shrink)>>,
               [i \in 1..Len(penalty) |-> penalty[i] * h.pl_weight])

\* The regularizer tensor of G_logistic_ns_pathreg, against the stored
\* moving average old.
G_logistic_ns_pathreg_reg(Gs_, opt_, mb, h, old, d) ==
    LET lengths == pl_lengths(d)
        mean == pl_mean(old, h.pl_decay, lengths)
        penalty == pl_penalty(lengths, mean)
    IN  Tensor(<<pl_minibatch(mb, h.pl_minibatch_shrink)>>,
               [i \in 1..Len(penalty) |-> penalty[i] * h.pl_weight])

\* The writes one evaluation of the regularizer makes to pl_mean_var.
pl_update(old, pl_decay, lengths) == << pl_mean(old, pl_decay, lengths) >>

\* The pair G_logistic_ns_pathreg returns, as one run evaluates it: the
\* tensor the run does not fetch (for which d holds no samples) keeps its
\* shape and has no entries.
G_logistic_ns_pathreg_out(Gs_, opt_, mb, h, old, d) ==
    [loss |-> G_logistic_ns_pathreg_loss(Gs_, opt_, mb, d),
     reg |-> G_logistic_ns_pathreg_reg(Gs_, opt_, mb, h, old, d)]

\* How often G_logistic_ns_pathreg uses each handle.
G_logistic_ns_pathreg_calls ==
    [G |-> IF hp.pl_minibatch_shrink > 1 THEN 2 ELSE 1, D |-> 1, Gs |-> 0, opt |-> 0]

\* A run that fetches the loss and runs pl_update all the same, on the
\* scores (the variant C4 excludes).
G_logistic_ns_pathreg_fetch_loss_with_update ==
    /\ pc = "idle" /\ fn = "G_logistic_ns_pathreg"
    /\ \E fake_scores \in [1..minibatch_size -> ScoreVals] :
          LET d == [NoDraw EXCEPT !.fake_scores = fake_scores]
          IN  /\ draw' = d
              /\ out' = G_logistic_ns_pathreg_out(Gs, opt, minibatch_size, hp, pl_mean_var, d)
              /\ alt' = G_logistic_ns_pathreg_out(other_Gs, other_opt, minibatch_size, hp, pl_mean_var, d)
              /\ pl_mean_var' = pl_mean_var + PlUnit
    /\ fetched' = {"loss"}
    /\ calls' = G_logistic_ns_pathreg_calls
    /\ pc' = "done"
    /\ UNCHANGED <<config, pl_old, pl_batch_mean, pl_max, pl_evals, pl_writes>>

\* A run that fetches the loss of G_logistic_ns_pathreg.
G_logistic_ns_pathreg_fetch_loss ==
    /\ pc = "idle" /\ fn = "G_logistic_ns_pathreg"
    /\ \E fake_scores \in [1..minibatch_size -> ScoreVals] :
          LET d == [NoDraw EXCEPT !.fake_scores = fake_scores]
          IN  /\ draw' = d
              /\ out' = G_logistic_ns_pathreg_out(Gs, opt, minibatch_size, hp, pl_mean_var, d)
              /\ alt' = G_logistic_ns_pathreg_out(other_Gs, other_opt, minibatch_size, hp, pl_mean_var, d)
    /\ fetched' = {"loss"}
    /\ calls' = G_logistic_ns_pathreg_calls
    /\ pc' = "done"
    /\ UNCHANGED <<config, pl>>

\* A run that fetches the regularizer of G_logistic_ns_pathreg: pl_update
\* runs, and then the penalty is computed.
G_logistic_ns_pathreg_fetch_reg ==
    /\ pc = "idle" /\ fn = "G_logistic_ns_pathreg"
    /\ pl_evals < MaxPlEvals
    /\ \E pl_grads \in [1..pl_minibatch(minibatch_size, hp.pl_minibatch_shrink) -> PlGrads] :
          LET d == [NoDraw EXCEPT !.pl_grads = pl_grads]
              writes == pl_update(pl_mean_var, hp.pl_decay, pl_lengths(d))
          IN  /\ draw' = d
              /\ out' = G_logistic_ns_pathreg_out(Gs, opt, minibatch_size, hp, pl_mean_var, d)
              /\ alt' = G_logistic_ns_pathreg_out(other_Gs, other_opt, minibatch_size, hp, pl_mean_var, d)
              /\ pl_mean_var' = IF writes = << >> THEN pl_mean_var ELSE writes[Len(writes)]
              /\ pl_writes' = pl_writes + Len(writes)
              /\ pl_batch_mean' = reduce_mean(pl_lengths(d))
              /\ pl_max' = Max(pl_max, reduce_mean(pl_lengths(d)))
    /\ pl_old' = pl_mean_var
    /\ pl_evals' = pl_evals + 1
    /\ fetched' = {"reg"}
    /\ calls' = G_logistic_ns_pathreg_calls
    /\ pc' = "done"
    /\ UNCHANGED config

\* G_logistic_ns_pathreg: one run fetches the loss, or the regularizer.
G_logistic_ns_pathreg ==
    \/ G_logistic_ns_pathreg_fetch_loss
    \/ G_logistic_ns_pathreg_fetch_reg

\* The external training loop uses the results of the run and goes on to
\* the next one.
training_loop ==
    /\ pc = "done"
    /\ pc' = "idle"
    /\ draw' = NoDraw
    /\ fetched' = {}
    /\ out' = NoOut
    /\ alt' = NoOut
    /\ calls' = NoCalls
    /\ pl_old' = 0
    /\ pl_batch_mean' = 0
    /\ UNCHANGED <<config, pl_mean_var, pl_max, pl_evals, pl_writes>>

Next ==
    \/ G_logistic
    \/ G_logistic_ns
    \/ D_logistic
    \/ D_logistic_r1
    \/ D_logistic_r2
    \/ G_wgan
    \/ D_wgan
    \/ D_wgan_gp
    \/ G_logistic_ns_pathreg
    \/ training_loop

Spec == Init /\ [][Next]_vars

\* ------------------------------------------------------------------ claims

NoRegFunctions == {"G_logistic", "G_logistic_ns", "D_logistic", "G_wgan", "D_wgan"}
RegFunctions == {"D_logistic_r1", "D_logistic_r2", "D_wgan_gp", "G_logistic_ns_pathreg"}

RECURSIVE Product(_)
Product(s) == IF s = << >> THEN 1 ELSE Head(s) * Product(Tail(s))

\* The number of entries of a tensor.
NumEntries(t) == Product(t.shape)

\* log(1 + e^(-x)), rounded to 1/Scale: the closed form the logistic losses
\* are compared with.
LogOnePlusExpNeg(x) ==
    CASE x = -2 -> 2127
      [] x = -1 -> 1313
      [] x =  0 -> 693
      [] x =  1 -> 313
      [] x =  2 -> 127

\* log 2, rounded to 1/Scale.
Log2 == LogOnePlusExpNeg(0)

\* C1: every loss function returns a pair (loss, regularizer): the loss is
\* never None, the regularizer is None exactly for G_logistic,
\* G_logistic_ns, D_logistic, G_wgan and D_wgan, and a tensor exactly for
\* D_logistic_r1, D_logistic_r2, D_wgan_gp and G_logistic_ns_pathreg.
C1_ReturnsPair ==
    pc = "done" =>
        /\ ~out.loss.none
        /\ out.reg.none <=> fn \in NoRegFunctions
        /\ ~out.reg.none <=> fn \in RegFunctions

C1_Witness ==
    /\ pc = "done" /\ fn = "D_wgan_gp" /\ minibatch_size = 2
    /\ ~out.reg.none /\ ~out.loss.none /\ Len(out.reg.data) = 2

\* The gradient_penalty of the run of a function that has one.
gradient_penalty ==
    CASE fn = "D_logistic_r1" -> D_logistic_r1_gradient_penalty(minibatch_size, draw)
      [] fn = "D_logistic_r2" -> D_logistic_r2_gradient_penalty(minibatch_size, draw)
      [] fn = "D_wgan_gp" -> D_wgan_gp_gradient_penalty(minibatch_size, hp.wgan_target, draw)

GradientPenaltyFunctions == {"D_logistic_r1", "D_logistic_r2", "D_wgan_gp"}

\* C2 as stated: for every gradient, the gradient_penalty of D_logistic_r1,
\* D_logistic_r2 and D_wgan_gp is >= 0 and so is the regularizer returned
\* from it.
C2_Original ==
    (pc = "done" /\ fn \in GradientPenaltyFunctions) =>
        \A i \in 1..minibatch_size :
            /\ gradient_penalty[i] >= 0
            /\ out.reg.data[i] >= 0

\* C2 as amended: the gradient_penalty is >= 0 for every gradient; the
\* regularizer returned from it is >= 0 when its weight is (gamma >= 0 for
\* D_logistic_r1 and D_logistic_r2, wgan_lambda >= 0 for D_wgan_gp).
C2_PenaltyNonNegative ==
    (pc = "done" /\ fn \in GradientPenaltyFunctions) =>
        LET weight == IF fn = "D_wgan_gp" THEN hp.wgan_lambda ELSE hp.gamma
        IN  \A i \in 1..minibatch_size :
                /\ gradient_penalty[i] >= 0
                /\ weight >= 0 => out.reg.data[i] >= 0

C2_Witness ==
    /\ pc = "done" /\ fn = "D_logistic_r1" /\ hp.gamma > 0
    /\ \E i \in 1..minibatch_size :
          /\ \E p \in 1..Len(draw.real_grads[i]) : draw.real_grads[i][p] < 0
          /\ out.reg.data[i] > 0

\* C3 as stated: the loss has exactly minibatch_size entries, and so has
\* every regularizer that is not None.
C3_Original ==
    pc = "done" =>
        /\ NumEntries(out.loss) = minibatch_size
        /\ ~out.reg.none => NumEntries(out.reg) = minibatch_size

\* C3 as amended: the loss has minibatch_size entries, except that of
\* G_logistic_ns, which has minibatch_size // 2; the regularizer of
\* D_logistic_r1, D_logistic_r2 and D_wgan_gp has minibatch_size entries,
\* and that of G_logistic_ns_pathreg has max(1, minibatch_size //
\* pl_minibatch_shrink) when pl_minibatch_shrink > 1 and minibatch_size
\* otherwise.  Every tensor a run evaluates holds that many values.
C3_PerSample ==
    pc = "done" =>
        /\ NumEntries(out.loss) =
              IF fn = "G_logistic_ns" THEN minibatch_size \div 2 ELSE minibatch_size
        /\ fn \in GradientPenaltyFunctions => NumEntries(out.reg) = minibatch_size
        /\ fn = "G_logistic_ns_pathreg" =>
              NumEntries(out.reg) =
                 IF hp.pl_minibatch_shrink > 1
                 THEN Max(1, minibatch_size \div hp.pl_minibatch_shrink)
                 ELSE minibatch_size
        /\ "loss" \in fetched => Len(out.loss.data) = NumEntries(out.loss)
        /\ "reg" \in fetched => Len(out.reg.data) = NumEntries(out.reg)

C3_Witness ==
    /\ pc = "done" /\ fn = "G_logistic_ns_pathreg" /\ "reg" \in fetched
    /\ minibatch_size = 2 /\ hp.pl_minibatch_shrink = 2
    /\ Len(out.reg.data) = 1

\* C4 as stated: no evaluation changes a value this file created.
C4_Original == [][pl_mean_var' = pl_mean_var]_vars

\* C4 as amended: the one value this file creates that outlives a run is
\* the variable pl_mean of G_logistic_ns_pathreg; no evaluation of the other
\* eight functions, and no evaluation of the loss of G_logistic_ns_pathreg,
\* changes it: only an evaluation of the regularizer of
\* G_logistic_ns_pathreg does.
C4_OnlyPathregWrites ==
    [][(pl_mean_var' # pl_mean_var \/ pl_writes' # pl_writes) =>
          (fn = "G_logistic_ns_pathreg" /\ pc' = "done" /\ "reg" \in fetched')]_vars

C4_Witness ==
    /\ fn = "G_logistic_ns_pathreg" /\ pc = "done" /\ fetched = {"loss"}
    /\ pl_mean_var # 0 /\ pl_evals = 1

\* C5: the non-saturating generator loss of G_logistic_ns and
\* G_logistic_ns_pathreg for a fake score x is log(1 + e^(-x)), and the
\* losses of D_logistic, D_logistic_r1 and D_logistic_r2 hold the same term
\* for the real score; it is strictly positive, decreasing in x, and log 2
\* at x = 0.
C5_ClosedForm ==
    /\ (pc = "done" /\ fn = "G_logistic_ns_pathreg" /\ "loss" \in fetched) =>
          \A i \in 1..minibatch_size :
              /\ out.loss.data[i] = LogOnePlusExpNeg(draw.fake_scores[i])
              /\ out.loss.data[i] > 0
              /\ draw.fake_scores[i] = 0 => out.loss.data[i] = Log2
              /\ \A j \in 1..minibatch_size :
                    draw.fake_scores[i] < draw.fake_scores[j] =>
                        out.loss.data[i] > out.loss.data[j]
    /\ (pc = "done" /\ fn = "G_logistic_ns") =>
          \A i \in 1..Len(out.loss.data) :
              /\ \E j \in 1..minibatch_size :
                    out.loss.data[i] = LogOnePlusExpNeg(draw.fake_scores[j])
              /\ out.loss.data[i] > 0
    /\ (pc = "done" /\ fn \in {"D_logistic", "D_logistic_r1", "D_logistic_r2"}) =>
          \A i \in 1..minibatch_size :
              out.loss.data[i] = LogOnePlusExpNeg(-draw.fake_scores[i])
                                   + LogOnePlusExpNeg(draw.real_scores[i])

C5_Witness ==
    /\ pc = "done" /\ fn = "G_logistic_ns_pathreg" /\ "loss" \in fetched
    /\ minibatch_size = 2
    /\ draw.fake_scores[1] = 0 /\ draw.fake_scores[2] = 1
    /\ out.loss.data[1] = Log2 /\ out.loss.data[2] < Log2

\* C6: the results are the same whatever opt and Gs the call is given; no
\* function uses opt; every discriminator loss evaluates Gs once (and
\* discards what it gives), no generator loss touches it.
C6_OptAndGsUnused ==
    pc = "done" =>
        /\ out = alt
        /\ calls.opt = 0
        /\ fn \in DFunctions => calls.Gs = 1
        /\ fn \in GFunctions => calls.Gs = 0

C6_Witness ==
    /\ pc = "done" /\ fn = "D_logistic" /\ minibatch_size = 2
    /\ calls.Gs = 1 /\ out = alt
    /\ Gs_get_output_for(Gs, 2) # Gs_get_output_for(other_Gs, 2)

\* C7: D_logistic_r1 and D_logistic_r2 return the loss D_logistic returns
\* for the same scores (the regularizer is not added into it); the
\* regularizer of R1 is gamma / 2 times the squared gradient norm of the
\* real scores with respect to the real images, that of R2 gamma / 2 times
\* the squared gradient norm of the fake scores with respect to the
\* generated images.
C7_R1R2 ==
    (pc = "done" /\ fn \in {"D_logistic_r1", "D_logistic_r2"}) =>
        LET grads == IF fn = "D_logistic_r1" THEN draw.real_grads ELSE draw.fake_grads
        IN  /\ out.loss = D_logistic_out(Gs, opt, minibatch_size, draw).loss
            /\ \A i \in 1..minibatch_size :
                  /\ out.loss.data[i] = softplus(draw.fake_scores[i])
                                          + softplus(-draw.real_scores[i])
                  /\ 2 * out.reg.data[i] = hp.gamma * Scale * SumSquares(grads[i])

C7_Witness ==
    /\ pc = "done" /\ fn = "D_logistic_r1" /\ hp.gamma = 10
    /\ \E i \in 1..minibatch_size :
          /\ SumSquares(draw.real_grads[i]) # SumSquares(draw.fake_grads[i])
          /\ out.reg.data[i] # 0

\* C8: an evaluation of the regularizer of G_logistic_ns_pathreg writes
\* pl_mean := old + pl_decay * (mean(pl_lengths) - old) exactly once, and
\* the penalty is (pl_lengths - new)^2 against the value written (not
\* against old); the regularizer is the penalty times pl_weight.  pl_mean
\* is 0 before the first evaluation.
C8_UpdateThenPenalty ==
    /\ (fn = "G_logistic_ns_pathreg" /\ pl_evals = 0) => pl_mean_var = 0
    /\ pl_writes = pl_evals
    /\ (pc = "done" /\ fn = "G_logistic_ns_pathreg" /\ "reg" \in fetched) =>
          LET lengths == pl_lengths(draw)
          IN  /\ Len(lengths) * pl_batch_mean = reduce_sum(lengths)
              /\ DecayDen * (pl_mean_var - pl_old) = hp.pl_decay * (pl_batch_mean - pl_old)
              /\ \A i \in 1..Len(lengths) :
                    out.reg.data[i] = square(lengths[i] - pl_mean_var) * hp.pl_weight

C8_Witness ==
    /\ pc = "done" /\ fn = "G_logistic_ns_pathreg" /\ "reg" \in fetched
    /\ pl_evals = 2 /\ pl_old # 0 /\ pl_mean_var # pl_old
    /\ \E i \in 1..Len(out.reg.data) :
          out.reg.data[i] # square(pl_lengths(draw)[i] - pl_old) * hp.pl_weight

\* C9: the loss of G_logistic_ns has shape [minibatch_size // 2, 1]; its
\* entries are softplus of the negated scores of minibatch_size // 2
\* samples, highest score first, so they do not decrease down the tensor;
\* no sample left out has a higher score than one taken; for
\* minibatch_size = 1 the loss has no entries.
C9_TopHalf ==
    (pc = "done" /\ fn = "G_logistic_ns") =>
        LET k == minibatch_size \div 2
            scores == draw.fake_scores
            loss == out.loss.data
        IN  /\ out.loss.shape = <<k, 1>>
            /\ Len(loss) = k
            /\ minibatch_size = 1 => loss = << >>
            /\ \A i \in 1..(k - 1) : loss[i] <= loss[i + 1]
            /\ \E taken \in [1..k -> 1..minibatch_size] :
                  /\ \A i, j \in 1..k : i # j => taken[i] # taken[j]
                  /\ \A i \in 1..k : loss[i] = LogOnePlusExpNeg(scores[taken[i]])
                  /\ \A i \in 1..(k - 1) : scores[taken[i]] >= scores[taken[i + 1]]
                  /\ \A i \in 1..k : \A j \in 1..minibatch_size :
                        (\A h \in 1..k : taken[h] # j) => scores[j] <= scores[taken[i]]

C9_Witness ==
    /\ pc = "done" /\ fn = "G_logistic_ns" /\ minibatch_size = 4
    /\ draw.fake_scores = <<-2, 1, -2, 0>>
    /\ out.loss.data = <<LogOnePlusExpNeg(1), LogOnePlusExpNeg(0)>>

\* C10: with 0 <= pl_decay <= 1, after any evaluations of the regularizer,
\* 0 <= pl_mean <= the largest mean(pl_lengths) seen so far; with
\* pl_decay = 0 it stays 0, and with pl_decay = 1 it is the batch mean of
\* the latest evaluation.
C10_MeanBounded ==
    (fn = "G_logistic_ns_pathreg" /\ 0 <= hp.pl_decay /\ hp.pl_decay <= DecayDen) =>
        /\ pl_mean_var >= 0
        /\ pl_mean_var <= pl_max
        /\ hp.pl_decay = 0 => pl_mean_var = 0
        /\ (hp.pl_decay = DecayDen /\ pc = "done" /\ "reg" \in fetched) =>
              pl_mean_var = pl_batch_mean

C10_Witness ==
    /\ fn = "G_logistic_ns_pathreg" /\ pc = "done" /\ "reg" \in fetched
    /\ hp.pl_decay = 1 /\ pl_evals = 2
    /\ 0 < pl_mean_var /\ pl_mean_var < pl_max /\ pl_batch_mean < pl_mean_var

\* Every division the moving average and the batch mean take is exact in
\* the units chosen.
ExactArithmetic ==
    (pc = "done" /\ fn = "G_logistic_ns_pathreg" /\ "reg" \in fetched) =>
        /\ reduce_sum(pl_lengths(draw)) % Len(pl_lengths(draw)) = 0
        /\ (hp.pl_decay * (pl_batch_mean - pl_old)) % DecayDen = 0
        /\ \A i \in 1..Len(draw.pl_grads) :
              LET m == reduce_mean([l \in 1..Len(draw.pl_grads[i]) |-> SumSquares(draw.pl_grads[i][l])])
              IN  square(sqrt(m)) = m
====
